---- MODULE Spec2Model ----
(***************************************************************************)
(* Model of daq::PMTDecoder (icaruscode/Decode/DecoderTools/               *)
(* PMTDecoder_tool.cc): the merge of board setup and PMT configuration     *)
(* into the fragment-keyed board database, and the decoding of a V1730     *)
(* fragment into time-stamped optical waveforms; and of the trigger gate    *)
(* utilities of icaruscode/PMT/Trigger/Utilities/TriggerDataUtils.h, which *)
(* assemble gate objects out of the gate data and of their associations to *)
(* optical waveforms.                                                      *)
(*                                                                         *)
(* Conventions of the model:                                               *)
(*  - pointers are indices: a `setup` pointer is an index into fBoardSetup,*)
(*    a `config` pointer an index into PMTconfig.boards, 0 is nullptr;     *)
(*  - std::optional / std::unique_ptr are records with a `has` flag;       *)
(*  - times are integers in nanoseconds; postTriggerFrac is held in        *)
(*    percent, so that bufferLength * (1 - postTriggerFrac) * tick is      *)
(*    exact integer arithmetic on the values enumerated here;              *)
(*  - an exception that leaves a tool method ends the job (the caller,     *)
(*    the art framework, does not call the tool again): pc = "aborted";    *)
(*  - an art::Ptr is the key (index from 0) of the element it points to, a *)
(*    raw::OpDetWaveform const* the position of the waveform in its data   *)
(*    product (from 1); an art::Assns is the sequence of its pairs.        *)
(***************************************************************************)
EXTENDS Integers, Sequences, FiniteSets, TLC

\* ------------------------------------------------------------------------
\* Bounds of the model
\* ------------------------------------------------------------------------
MaxSetups == 2
MaxConfigs == 1
MaxWaveforms == 2
MaxGates == 2
MaxAssns == 3
MaxGateWaveforms == 2

\* ------------------------------------------------------------------------
\* Program constants
\* ------------------------------------------------------------------------
\* details::BoardSetup_t::NoFragmentID, std::numeric_limits<unsigned>::max():
\* the largest integer of the model stands for it (fragment IDs are 16 bit)
NoFragmentID == 2147483647
\* fOpticalTick: fDetTimings.OpticalClockPeriod(), 2 ns
fOpticalTick == 2
\* fDetTimings.TriggerTime(), the reference trigger time [ns]
TriggerTime == 1000
\* sizeof(sbndaq::CAENV1730EventHeader)/sizeof(uint32_t)
evt_header_size_quad_bytes == 4
\* modulus of the unsigned arithmetic on the event size (uint32_t), held on
\* 30 bits: the integers of the model end at 2^31 - 1
UInt32 == 1073741824
\* artdaqFragment.fragmentID() & 0x0fff
FragmentIDMask == 4096

\* ------------------------------------------------------------------------
\* Input domains
\* ------------------------------------------------------------------------
BoardNames == <<"pmt01", "pmt02">>

\* lexicographic rank of a board name (std::string operator<)
NameRank(name) == CHOOSE i \in DOMAIN BoardNames : BoardNames[i] = name

SeqsUpTo(S, n) == UNION { [1..k -> S] : k \in 0..n }

\* FHiCL `BoardSetup` entries: Name, optional FragmentID, TriggerDelay.
BoardSetupConfigs ==
  { [Name |-> "pmt01", hasFragmentID |-> FALSE, FragmentID |-> 0, TriggerDelay |-> 43],
    [Name |-> "pmt01", hasFragmentID |-> TRUE,  FragmentID |-> 1, TriggerDelay |-> 43],
    [Name |-> "pmt02", hasFragmentID |-> TRUE,  FragmentID |-> 1, TriggerDelay |-> 10],
    [Name |-> "pmt02", hasFragmentID |-> TRUE,  FragmentID |-> 2, TriggerDelay |-> 10] }

\* sbn::V1730Configuration entries of the run's sbn::PMTconfiguration
\* (postTriggerFrac in percent).
V1730Configurations ==
  { [boardName |-> "pmt01", fragmentID |-> 1, bufferLength |-> 2000, postTriggerFrac |-> 50],
    [boardName |-> "pmt01", fragmentID |-> 2, bufferLength |-> 1000, postTriggerFrac |-> 75],
    [boardName |-> "pmt02", fragmentID |-> 1, bufferLength |-> 1000, postTriggerFrac |-> 50],
    [boardName |-> "pmt02", fragmentID |-> 2, bufferLength |-> 2000, postTriggerFrac |-> 75] }

\* what run.getPointerByLabel<sbn::PMTconfiguration>() can return:
\* nullptr (no such product in the run) or a configuration with its boards
NullPMTconfig == [present |-> FALSE, boards |-> << >>]
PMTconfigurations ==
  {NullPMTconfig} \cup
  { [present |-> TRUE, boards |-> b] : b \in SeqsUpTo(V1730Configurations, MaxConfigs) }

\* fragment IDs seen in input (4097 = 0x1001 has effective ID 1, 4099 = 0x1003
\* has effective ID 3)
FragmentIDs == {1, 2, 4097, 4099}

\* A well-formed CAEN V1730 fragment: `data` is the payload that follows the
\* event header, 2*(eventSize - header size) 16-bit samples, channel-major.
MakeFragment(id, nChannels, eventSize) ==
  [fragmentID |-> id, nChannels |-> nChannels, eventSize |-> eventSize,
   data |-> [i \in 1..(2 * (eventSize - evt_header_size_quad_bytes)) |-> i]]
\* the fragments in input: two channels of two samples each and, for board 2,
\* also a fragment that declares three channels for its four samples
Fragments ==
  { MakeFragment(id, 2, 6) : id \in FragmentIDs } \cup { MakeFragment(2, 3, 6) }
NoFragment == [fragmentID |-> 0, nChannels |-> 0, eventSize |-> 0, data |-> << >>]

\* Fragments whose header or metadata disagree with their payload of four
\* samples: an event size below the size of the header, an event size whose
\* double exceeds 32 bits, no channel at all, and one channel where the
\* channel map has two.
FragmentsWithBadHeader ==
  { [MakeFragment(1, 2, 6) EXCEPT !.eventSize = evt_header_size_quad_bytes - 1],
    [MakeFragment(1, 2, 6) EXCEPT !.eventSize = UInt32 \div 2 + 6],
    [MakeFragment(1, 2, 6) EXCEPT !.nChannels = 0],
    [MakeFragment(1, 2, 6) EXCEPT !.nChannels = 1] }

\* icarusDB::IICARUSChannelMap: effective fragment ID -> (digitizer channel,
\* channel ID) pairs; effective ID 3 is unknown to the channel map.
getChannelIDPairVec(eff_fragment_id) ==
  CASE eff_fragment_id = 1 -> << <<0, 101>>, <<1, 102>> >>
    [] eff_fragment_id = 2 -> << <<1, 152>> >>
    [] OTHER -> << >>
\* (mutant) the channel map claims to know every board
hasPMTDigitizerID_any(eff_fragment_id) == TRUE

hasPMTDigitizerID(eff_fragment_id) == eff_fragment_id \in {1, 2}

\* ------------------------------------------------------------------------
\* State
\* ------------------------------------------------------------------------
VARIABLES
  fRequireKnownBoards,       \* configuration parameter RequireKnownBoards
  fRequireBoardConfig,       \* configuration parameter RequireBoardConfig
  fPMTconfigTag,             \* TRUE iff PMTconfigTag is specified
  fBoardSetup,               \* configuration parameter BoardSetup (converted)
  fBoardInfoLookup,          \* std::optional<details::BoardInfoLookup>
  fOpDetWaveformCollection,  \* std::unique_ptr<std::vector<raw::OpDetWaveform>>
  PMTconfig,                 \* the argument of the last UpdatePMTConfiguration
  eventProduct,              \* the collection put into the event by the last output
  lastCall,                  \* the last tool method called and how it ended
  pc,                        \* position of the caller in the tool's life cycle
  triggerGateData,           \* data product std::vector<TriggerGateData>
  triggerGateAssns,          \* data product art::Assns<TriggerGateData, raw::OpDetWaveform>
  triggerGates,              \* what the last call of FillTriggerGates ended with
  sourceGates,               \* the gate objects of a producer, as they were built
  opDetWaveMap,              \* its map from optical waveforms to their art pointers
  written                    \* how its call of transformIntoOpticalTriggerGate ended

decoderVars == << fRequireKnownBoards, fRequireBoardConfig, fPMTconfigTag, fBoardSetup,
                  fBoardInfoLookup, fOpDetWaveformCollection, PMTconfig, eventProduct,
                  lastCall, pc >>

producerVars == << sourceGates, opDetWaveMap, written >>

triggerVars == << triggerGateData, triggerGateAssns, triggerGates, producerVars >>

vars == << decoderVars, triggerVars >>

config == << fRequireKnownBoards, fRequireBoardConfig, fPMTconfigTag, fBoardSetup >>

NoLookup == [has |-> FALSE, db |-> << >>]
NullCollection == [has |-> FALSE, v |-> << >>]
\* a call of a tool method: how it ended, its argument and the content of the
\* output collection before it
Call(op, status, error, fragment, before) ==
  [op |-> op, status |-> status, error |-> error, fragment |-> fragment, before |-> before]

\* ------------------------------------------------------------------------
\* Board setup and PMT configuration matching
\* ------------------------------------------------------------------------
Min(S) == CHOOSE x \in S : \A y \in S : x <= y

\* daq::convert(BoardSetupConfig): a missing FragmentID becomes NoFragmentID
convert(c) ==
  [name |-> c.Name,
   fragmentID |-> IF c.hasFragmentID THEN c.FragmentID ELSE NoFragmentID,
   triggerDelay |-> c.TriggerDelay]

BoardSetups == { convert(c) : c \in BoardSetupConfigs }

\* details::BoardSetup_t::hasFragmentID()
hasFragmentID(boardSetup) == boardSetup.fragmentID # NoFragmentID

hasPMTconfiguration == fPMTconfigTag

\* operator< of std::pair<std::string, V1730Configuration const*>: by name,
\* then by address (the boards are elements of one vector: by index)
PairLess(p, q) ==
  \/ NameRank(p[1]) < NameRank(q[1])
  \/ p[1] = q[1] /\ p[2] < q[2]

RECURSIVE InsertPair(_, _)
InsertPair(s, p) ==
  IF s = << >> THEN << p >>
  ELSE IF PairLess(p, Head(s)) THEN << p >> \o s
  ELSE << Head(s) >> \o InsertPair(Tail(s), p)

\* configByName: (board name, pointer to board configuration), sorted
RECURSIVE configByNameUpTo(_, _)
configByNameUpTo(boards, n) ==
  IF n = 0 THEN << >>
  ELSE InsertPair(configByNameUpTo(boards, n - 1), << boards[n].boardName, n >>)

configByName(cfg) ==
  IF cfg.present THEN configByNameUpTo(cfg.boards, Len(cfg.boards)) ELSE << >>

\* details::binarySearch(coll, key): position of the first element whose key
\* is not less than `key` if that element has the key, else 0 (nullptr)
binarySearch(coll, key) ==
  LET notLess == { i \in DOMAIN coll : ~(NameRank(coll[i][1]) < NameRank(key)) }
      it == IF notLess = {} THEN Len(coll) + 1 ELSE Min(notLess)
  IN IF it <= Len(coll) /\ coll[it][1] = key THEN it ELSE 0

\* `ppBoardConfig->second` with ppBoardConfig == nullptr: undefined behaviour.
\* The build either faults on the read, or, taking the pointer for non-null,
\* reads `second` of the element the search stopped at (`it`): the pointer of
\* a board with another name or, past the end of the vector, no board at all.
NullDereference(byName, name) ==
  LET notLess == { i \in DOMAIN byName : ~(NameRank(byName[i][1]) < NameRank(name)) }
  IN {[kind |-> "crash", config |-> 0]} \cup
     {[kind |-> "return",
       config |-> IF notLess = {} THEN 0 ELSE byName[Min(notLess)][2]]}

\* lambda findPMTconfig: the possible ends of one lookup by name
findPMTconfig(byName, name) ==
  IF ~hasPMTconfiguration THEN {[kind |-> "return", config |-> 0]}
  ELSE LET ppBoardConfig == binarySearch(byName, name)
       IN IF ppBoardConfig = 0 /\ fRequireKnownBoards
          THEN {[kind |-> "throw", config |-> 0]}
          ELSE IF ppBoardConfig = 0 THEN NullDereference(byName, name)
          ELSE {[kind |-> "return", config |-> byName[ppBoardConfig][2]]}

\* (mutant) a board with no configuration gets the pre-trigger time of a
\* standard configuration instead of none
preTriggerTime_standard(cfg, pBoardConfig) ==
  IF pBoardConfig # 0
  THEN (cfg.boards[pBoardConfig].bufferLength
          * (100 - cfg.boards[pBoardConfig].postTriggerFrac) * fOpticalTick) \div 100
  ELSE (2000 * (100 - 50) * fOpticalTick) \div 100

\* (mutant) the post-trigger part of the buffer is taken for the pre-trigger
preTriggerTime_postTrigger(cfg, pBoardConfig) ==
  IF pBoardConfig # 0
  THEN (cfg.boards[pBoardConfig].bufferLength
          * cfg.boards[pBoardConfig].postTriggerFrac * fOpticalTick) \div 100
  ELSE 0

\* preTriggerTime of a board: bufferLength * (1 - postTriggerFrac) * tick
preTriggerTime(cfg, pBoardConfig) ==
  IF pBoardConfig # 0
  THEN (cfg.boards[pBoardConfig].bufferLength
          * (100 - cfg.boards[pBoardConfig].postTriggerFrac) * fOpticalTick) \div 100
  ELSE 0

\* (mutant) the fragment ID of the record is the one of the setup
BoardInfo_setupFragmentID(setups, cfg, i, pBoardConfig) ==
  [fragmentID |-> setups[i].fragmentID,
   setup |-> i,
   config |-> pBoardConfig,
   facts |-> [preTriggerTime |-> preTriggerTime(cfg, pBoardConfig)]]

\* the record pushed into boardInfoByFragment for a board setup
BoardInfo(setups, cfg, i, pBoardConfig) ==
  [fragmentID |-> IF pBoardConfig # 0 THEN cfg.boards[pBoardConfig].fragmentID
                  ELSE setups[i].fragmentID,
   setup |-> i,
   config |-> pBoardConfig,
   facts |-> [preTriggerTime |-> preTriggerTime(cfg, pBoardConfig)]]

\* std::sort of the database by fragmentID (BoardInfo_t::operator<): the
\* order of records with equal fragmentID is unspecified
sortDatabase(db) ==
  LET n == Len(db)
      orders == { f \in [1..n -> 1..n] :
                    /\ \A i, j \in 1..n : i # j => f[i] # f[j]
                    /\ \A i, j \in 1..n :
                         i < j => db[f[i]].fragmentID <= db[f[j]].fragmentID }
  IN { [i \in 1..n |-> db[f[i]]] : f \in orders }

Failure(status, error) == [status |-> status, error |-> error, db |-> << >>]

\* (mutant) the fragment ID of the setup is not compared to the configuration
fragmentIDmismatch_unchecked(boardSetup, cfg, pBoardConfig) == FALSE

\* fragment ID from configuration and setup must match if both present
fragmentIDmismatch(boardSetup, cfg, pBoardConfig) ==
  /\ pBoardConfig # 0
  /\ hasFragmentID(boardSetup)
  /\ boardSetup.fragmentID # cfg.boards[pBoardConfig].fragmentID

\* the loop of matchBoardConfigurationAndSetup from board setup i on, with
\* the records collected so far: the set of its possible ends
RECURSIVE matchFrom(_, _, _, _)
matchFrom(setups, cfg, i, boardInfoByFragment) ==
  IF i > Len(setups)
  THEN { [status |-> "ok", error |-> "none", db |-> d] :
           d \in sortDatabase(boardInfoByFragment) }
  ELSE LET boardSetup == setups[i]
           after(r) ==
             IF r.kind = "throw" THEN {Failure("throw", "NoDAQConfiguration")}
             ELSE IF r.kind = "crash" THEN {Failure("crash", "NullDereference")}
             ELSE IF fragmentIDmismatch(boardSetup, cfg, r.config)
                  THEN {Failure("throw", "FragmentIDMismatch")}
             ELSE IF r.config = 0 /\ ~hasFragmentID(boardSetup)
                  THEN matchFrom(setups, cfg, i + 1, boardInfoByFragment)
             ELSE matchFrom(setups, cfg, i + 1,
                            Append(boardInfoByFragment,
                                   BoardInfo(setups, cfg, i, r.config)))
       IN UNION { after(r) : r \in findPMTconfig(configByName(cfg), boardSetup.name) }

matchBoardConfigurationAndSetup(setups, cfg) == matchFrom(setups, cfg, 1, << >>)

\* (mutant) the database is matched but not emplaced into the lookup
UpdatePMTConfiguration_notEmplaced(cfg) ==
  \E o \in matchBoardConfigurationAndSetup(fBoardSetup, cfg) :
    /\ fBoardInfoLookup' = fBoardInfoLookup
    /\ lastCall' = Call("setupRun", o.status, o.error, NoFragment,
                        fOpDetWaveformCollection.v)

\* UpdatePMTConfiguration: the lookup is emplaced only if the matching returns
UpdatePMTConfiguration(cfg) ==
  \E o \in matchBoardConfigurationAndSetup(fBoardSetup, cfg) :
    /\ fBoardInfoLookup' = IF o.status = "ok" THEN [has |-> TRUE, db |-> o.db]
                           ELSE fBoardInfoLookup
    /\ lastCall' = Call("setupRun", o.status, o.error, NoFragment,
                        fOpDetWaveformCollection.v)

\* setupRun: reads the PMT configuration from the run if a tag is configured
setupRun(runProduct) ==
  /\ PMTconfig' = IF fPMTconfigTag THEN runProduct ELSE NullPMTconfig
  /\ UpdatePMTConfiguration(PMTconfig')
  /\ UNCHANGED << config, fOpDetWaveformCollection >>

\* ------------------------------------------------------------------------
\* Fragment decoding
\* ------------------------------------------------------------------------
\* what a read past the end of the fragment payload may find
GarbageSamples == {0, 65535}

\* details::BoardInfoLookup::findBoardInfo(fragmentID): lower bound in the
\* sorted database; index of the record, 0 (nullptr) if its ID is not there
findBoardInfo(db, fragmentID) ==
  LET notLess == { i \in DOMAIN db : ~(db[i].fragmentID < fragmentID) }
      it == IF notLess = {} THEN Len(db) + 1 ELSE Min(notLess)
  IN IF it <= Len(db) /\ db[it].fragmentID = fragmentID THEN it ELSE 0

\* fetchNeededBoardInfo(boardInfo, fragmentID): name, pre-trigger time and
\* trigger delay of the board, zero where the information is not available
fetchNeededBoardInfo(boardInfo, fragmentID) ==
  LET info == fBoardInfoLookup.db[boardInfo]
  IN [name |-> IF boardInfo # 0 /\ info.config # 0
               THEN PMTconfig.boards[info.config].boardName
               ELSE "<ID=" \o ToString(fragmentID),
      preTriggerTime |-> IF boardInfo # 0 THEN info.facts.preTriggerTime ELSE 0,
      PMTtriggerDelay |-> IF boardInfo # 0 /\ info.setup # 0
                          THEN fBoardSetup[info.setup].triggerDelay ELSE 0]

\* (mutant) the trigger delay is left out of the time stamp
timeStamp_noDelay(info) == TriggerTime - info.preTriggerTime

\* timeStamp = fDetTimings.TriggerTime() - PMTtriggerDelay - preTriggerTime
timeStamp(info) == TriggerTime - info.PMTtriggerDelay - info.preTriggerTime

\* (mutant) a fragment of an unknown board is an error whatever the flag
unknownBoardError_always(boardInfo) == boardInfo = 0

\* the board of the fragment is not in the database, and that is an error
unknownBoardError(boardInfo) == boardInfo = 0 /\ fRequireKnownBoards

\* (mutant) every channel is copied from the begin of the payload
copy_n_fromBegin(data, ch_offset, nSamplesPerChannel, garbage) ==
  [k \in 1..nSamplesPerChannel |-> IF k <= Len(data) THEN data[k] ELSE garbage]

\* std::copy_n(data_begin + ch_offset, nSamplesPerChannel, wvfm.begin())
copy_n(data, ch_offset, nSamplesPerChannel, garbage) ==
  [k \in 1..nSamplesPerChannel |->
     IF ch_offset + k <= Len(data) THEN data[ch_offset + k] ELSE garbage]

OpDetWaveform(time, channel, samples) ==
  [TimeStamp |-> time, ChannelNumber |-> channel, Waveform |-> samples]

Decoded(status, error, waveforms) ==
  [status |-> status, error |-> error, waveforms |-> waveforms]

\* process_fragment from `data_begin` (line 566) on, with the number of
\* samples of a channel that the header gave: the set of its possible ends,
\* each with the waveforms it appends to the output collection. A number of
\* samples above the size of the whole payload comes from a size that wrapped:
\* the allocation of `wvfm` fails, or the copy runs off the memory of the job.
decodeSamples(artdaqFragment, nSamplesPerChannel) ==
  LET fragment_id == artdaqFragment.fragmentID
      eff_fragment_id == artdaqFragment.fragmentID % FragmentIDMask
      boardInfo == findBoardInfo(fBoardInfoLookup.db, fragment_id)
      info == fetchNeededBoardInfo(boardInfo, fragment_id)
      digitizerChannelVec == getChannelIDPairVec(eff_fragment_id)
      inPayload ==
        \A i \in DOMAIN digitizerChannelVec :
          digitizerChannelVec[i][1] * nSamplesPerChannel + nSamplesPerChannel
            <= Len(artdaqFragment.data)
      waveforms(garbage) ==
        [i \in DOMAIN digitizerChannelVec |->
           OpDetWaveform(timeStamp(info), digitizerChannelVec[i][2],
                         copy_n(artdaqFragment.data,
                                digitizerChannelVec[i][1] * nSamplesPerChannel,
                                nSamplesPerChannel, garbage))]
  IN IF ~hasPMTDigitizerID(eff_fragment_id)
       THEN {Decoded("ok", "NoChannelInformation", << >>)}
     ELSE IF ~fBoardInfoLookup.has
       THEN {Decoded("crash", "NoBoardInfoLookup", << >>)}
     ELSE IF unknownBoardError(boardInfo)
       THEN {Decoded("throw", "NoBoardInformation", << >>)}
     ELSE IF nSamplesPerChannel > Len(artdaqFragment.data)
       THEN {Decoded("throw", "bad_alloc", << >>),
             Decoded("crash", "ReadPastPayload", << >>)}
     ELSE IF digitizerChannelVec # << >> /\ ~fOpDetWaveformCollection.has
       THEN {Decoded("crash", "NullCollection", << >>)}
     ELSE IF inPayload
       THEN {Decoded("ok", "none", waveforms(0))}
     ELSE {Decoded("crash", "ReadPastPayload", << >>)} \cup
          { Decoded("ok", "none", waveforms(g)) : g \in GarbageSamples }

\* the body of process_fragment: the sizes read from the fragment (lines
\* 540-547, all in 32 bits) and the decoding with them. The division by a
\* channel count of zero is undefined: the job faults, or goes on with the
\* quotient that the processor leaves, zero.
decodeFragment(artdaqFragment) ==
  LET nChannelsPerBoard == artdaqFragment.nChannels
      ev_size_quad_bytes == artdaqFragment.eventSize
      data_size_double_bytes ==
        (2 * (ev_size_quad_bytes - evt_header_size_quad_bytes)) % UInt32
  IN IF nChannelsPerBoard = 0
       THEN {Decoded("crash", "DivisionByZero", << >>)} \cup
            decodeSamples(artdaqFragment, 0)
     ELSE decodeSamples(artdaqFragment,
                        data_size_double_bytes \div nChannelsPerBoard)

\* (mutant) the waveforms of the fragment replace the collection
process_fragment_assigning(artdaqFragment) ==
  /\ \E o \in decodeFragment(artdaqFragment) :
       /\ fOpDetWaveformCollection' =
            [fOpDetWaveformCollection EXCEPT !.v = o.waveforms]
       /\ lastCall' = Call("process_fragment", o.status, o.error, artdaqFragment,
                           fOpDetWaveformCollection.v)
  /\ UNCHANGED << config, fBoardInfoLookup, PMTconfig, eventProduct >>

process_fragment(artdaqFragment) ==
  /\ \E o \in decodeFragment(artdaqFragment) :
       /\ fOpDetWaveformCollection' =
            [fOpDetWaveformCollection EXCEPT !.v = @ \o o.waveforms]
       /\ lastCall' = Call("process_fragment", o.status, o.error, artdaqFragment,
                           fOpDetWaveformCollection.v)
  /\ UNCHANGED << config, fBoardInfoLookup, PMTconfig, eventProduct >>

initializeDataProducts ==
  /\ fOpDetWaveformCollection' = [has |-> TRUE, v |-> << >>]
  /\ eventProduct' = NullCollection
  /\ lastCall' = Call("initializeDataProducts", "ok", "none", NoFragment,
                      fOpDetWaveformCollection.v)
  /\ UNCHANGED << config, fBoardInfoLookup, PMTconfig >>

\* (mutant) the collection is left in the order of insertion
sortByChannel_asInserted(coll) == {coll}

\* std::sort by ChannelNumber(): the order of waveforms of the same channel
\* is unspecified
sortByChannel(coll) ==
  LET n == Len(coll)
      orders == { f \in [1..n -> 1..n] :
                    /\ \A i, j \in 1..n : i # j => f[i] # f[j]
                    /\ \A i, j \in 1..n :
                         i < j => coll[f[i]].ChannelNumber <= coll[f[j]].ChannelNumber }
  IN { [i \in 1..n |-> coll[f[i]]] : f \in orders }

\* (mutant) the event gets a copy and the tool keeps its collection
outputDataProducts_copying ==
  /\ IF fOpDetWaveformCollection.has
     THEN /\ \E sorted \in sortByChannel(fOpDetWaveformCollection.v) :
               eventProduct' = [has |-> TRUE, v |-> sorted]
          /\ fOpDetWaveformCollection' = fOpDetWaveformCollection
          /\ lastCall' = Call("outputDataProducts", "ok", "none", NoFragment,
                              fOpDetWaveformCollection.v)
     ELSE /\ lastCall' = Call("outputDataProducts", "crash", "NullCollection",
                              NoFragment, << >>)
          /\ UNCHANGED << fOpDetWaveformCollection, eventProduct >>
  /\ UNCHANGED << config, fBoardInfoLookup, PMTconfig >>

outputDataProducts ==
  /\ IF fOpDetWaveformCollection.has
     THEN /\ \E sorted \in sortByChannel(fOpDetWaveformCollection.v) :
               eventProduct' = [has |-> TRUE, v |-> sorted]
          /\ fOpDetWaveformCollection' = NullCollection
          /\ lastCall' = Call("outputDataProducts", "ok", "none", NoFragment,
                              fOpDetWaveformCollection.v)
     ELSE /\ lastCall' = Call("outputDataProducts", "crash", "NullCollection",
                              NoFragment, << >>)
          /\ UNCHANGED << fOpDetWaveformCollection, eventProduct >>
  /\ UNCHANGED << config, fBoardInfoLookup, PMTconfig >>

\* ------------------------------------------------------------------------
\* Life cycle: the framework calls setupRun at the begin of each run and,
\* for each event of the run, initializeDataProducts, process_fragment for
\* each fragment and outputDataProducts; a failure ends the job. The event
\* that receives the output belongs to the framework: a new run or a new
\* event starts with no output product.
\* pc: "constructed", "runStarted" (setupRun returned, no event yet), "inEvent",
\* "inRun" (between two events), "aborted". The job is followed through its
\* runs without events and through the events of the run after them:
\* outputDataProducts leaves the members of the tool as setupRun left them,
\* so a run that begins after events begins in a state of the tool that a
\* run without events before it reaches too.
\* ------------------------------------------------------------------------
NoGates == [status |-> "none", gates |-> << >>]

Init ==
  /\ triggerGateData = << >>
  /\ triggerGateAssns = << >>
  /\ triggerGates = NoGates
  /\ sourceGates = << >>
  /\ opDetWaveMap = << >>
  /\ written = "none"
  /\ fRequireKnownBoards \in BOOLEAN
  /\ fRequireBoardConfig \in BOOLEAN
  /\ fPMTconfigTag \in BOOLEAN
  /\ fBoardSetup \in SeqsUpTo(BoardSetups, MaxSetups)
  /\ fBoardInfoLookup = NoLookup
  /\ fOpDetWaveformCollection = NullCollection
  /\ PMTconfig = NullPMTconfig
  /\ eventProduct = NullCollection
  /\ lastCall = Call("PMTDecoder", "ok", "none", NoFragment, << >>)
  /\ pc = "constructed"

Then(next) == pc' = IF lastCall'.status = "ok" THEN next ELSE "aborted"

BeginRun ==
  /\ pc \in {"constructed", "runStarted"}
  /\ \E runProduct \in PMTconfigurations : setupRun(runProduct)
  /\ eventProduct' = NullCollection
  /\ Then("runStarted")
  /\ UNCHANGED triggerVars

BeginEvent ==
  /\ pc \in {"runStarted", "inRun"}
  /\ initializeDataProducts
  /\ Then("inEvent")
  /\ UNCHANGED triggerVars

DecodeFragment ==
  /\ pc = "inEvent"
  /\ Len(fOpDetWaveformCollection.v) < MaxWaveforms
  /\ \E artdaqFragment \in Fragments : process_fragment(artdaqFragment)
  /\ Then("inEvent")
  /\ UNCHANGED triggerVars

EndEvent ==
  /\ pc = "inEvent"
  /\ outputDataProducts
  /\ Then("inRun")
  /\ UNCHANGED triggerVars

Next == BeginRun \/ BeginEvent \/ DecodeFragment \/ EndEvent

Spec == Init /\ [][Next]_vars

\* The same job with an input file that also holds fragments with a bad
\* header: process_fragment receives whatever fragment the input has.
DecodeAnyFragment ==
  /\ pc = "inEvent"
  /\ Len(fOpDetWaveformCollection.v) < MaxWaveforms
  /\ \E artdaqFragment \in FragmentsWithBadHeader : process_fragment(artdaqFragment)
  /\ Then("inEvent")
  /\ UNCHANGED triggerVars

AnyFragmentNext == Next \/ DecodeAnyFragment

AnyFragmentSpec == Init /\ [][AnyFragmentNext]_vars

\* ------------------------------------------------------------------------
\* Trigger gate utilities (TriggerDataUtils.h)
\* ------------------------------------------------------------------------
\* the gate data of the model (TriggerGateData): a sequence of gate levels,
\* empty when default-constructed
TriggerGateDatas == { << >>, << 1 >> }

\* the optical waveforms that the associations point to
OpDetWaveformPtrs == {1, 2}

\* the pairs of an art::Assns<TriggerGateData, raw::OpDetWaveform>:
\* << key of the gate data, waveform >>
AssnPairs == (0..(MaxGates - 1)) \X OpDetWaveformPtrs

\* GateObject, as FillTriggerGates requires it: constructed with a waveform,
\* added a waveform with add(), assigned a TriggerGateData
GateObject(waveform) == [levels |-> << >>, waveforms |-> << waveform >>]
add(gateObject, waveform) ==
  [gateObject EXCEPT !.waveforms = Append(@, waveform)]
assign(gateObject, gate) == [gateObject EXCEPT !.levels = gate]

\* (mutant) the associations of a gate are searched from the first pair on
groupBegin_fromStart(gateToWaveforms, from, iGate) ==
  LET found == { i \in 1..Len(gateToWaveforms) : gateToWaveforms[i][1] = iGate }
  IN IF found = {} THEN Len(gateToWaveforms) + 1 ELSE Min(found)

\* first loop on the associations: the first pair from `from` on with the
\* key iGate (end of the associations, Len + 1, if none)
groupBegin(gateToWaveforms, from, iGate) ==
  LET found == { i \in from..Len(gateToWaveforms) : gateToWaveforms[i][1] = iGate }
  IN IF found = {} THEN Len(gateToWaveforms) + 1 ELSE Min(found)

\* (mutant) the group of a gate ends right after its first association
groupEnd_afterFirst(gateToWaveforms, from, iGate) ==
  IF from <= Len(gateToWaveforms) THEN from + 1 ELSE from

\* second loop on the associations: the first pair from `from` on with a key
\* other than iGate (end of the associations if none)
groupEnd(gateToWaveforms, from, iGate) ==
  LET found == { i \in from..Len(gateToWaveforms) : gateToWaveforms[i][1] # iGate }
  IN IF found = {} THEN Len(gateToWaveforms) + 1 ELSE Min(found)

\* gateData with the waveforms of the pairs iFirstWaveform..iEndWaveform - 1
RECURSIVE addWaveforms(_, _, _, _)
addWaveforms(gateData, gateToWaveforms, iEndWaveform, iGateToWaveform) ==
  IF iEndWaveform >= iGateToWaveform THEN gateData
  ELSE addWaveforms(add(gateData, gateToWaveforms[iEndWaveform][2]),
                    gateToWaveforms, iEndWaveform + 1, iGateToWaveform)

\* the loop of FillTriggerGates from gate iGate (from 0) on, with the
\* association iterator at iGateToWaveform and the gates assembled so far
RECURSIVE FillFrom(_, _, _, _, _)
FillFrom(gates, gateToWaveforms, iGate, iGateToWaveform, allGates) ==
  IF iGate >= Len(gates) THEN [status |-> "ok", gates |-> allGates]
  ELSE LET iFirstWaveform == groupBegin(gateToWaveforms, iGateToWaveform, iGate)
           iNext == groupEnd(gateToWaveforms, iFirstWaveform, iGate)
       IN IF iFirstWaveform = iNext
          THEN [status |-> "throw", gates |-> << >>]
          ELSE LET first == GateObject(gateToWaveforms[iFirstWaveform][2])
                   withAll == addWaveforms(first, gateToWaveforms,
                                           iFirstWaveform + 1, iNext)
                   gateData == assign(withAll, gates[iGate + 1])
               IN FillFrom(gates, gateToWaveforms, iGate + 1, iNext,
                           Append(allGates, gateData))

FillTriggerGates(gates, gateToWaveforms) ==
  FillFrom(gates, gateToWaveforms, 0, 1, << >>)

\* A job that reads gate data and associations from an event and assembles
\* the gate objects with FillTriggerGates; its decoder is not used.
TriggerInit ==
  /\ triggerGateData \in SeqsUpTo(TriggerGateDatas, MaxGates)
  /\ triggerGateAssns \in SeqsUpTo(AssnPairs, MaxAssns)
  /\ triggerGates = NoGates
  /\ sourceGates = << >>
  /\ opDetWaveMap = << >>
  /\ written = "none"
  /\ fRequireKnownBoards = FALSE
  /\ fRequireBoardConfig = FALSE
  /\ fPMTconfigTag = FALSE
  /\ fBoardSetup = << >>
  /\ fBoardInfoLookup = NoLookup
  /\ fOpDetWaveformCollection = NullCollection
  /\ PMTconfig = NullPMTconfig
  /\ eventProduct = NullCollection
  /\ lastCall = Call("PMTDecoder", "ok", "none", NoFragment, << >>)
  /\ pc = "constructed"

ReadTriggerGates ==
  /\ triggerGates.status = "none"
  /\ triggerGates' = FillTriggerGates(triggerGateData, triggerGateAssns)
  /\ UNCHANGED << triggerGateData, triggerGateAssns, producerVars, decoderVars >>

TriggerNext == ReadTriggerGates

TriggerSpec == TriggerInit /\ [][TriggerNext]_vars

\* the gate objects that a producer builds: levels and any number of waveforms
SourceGates ==
  [levels : TriggerGateDatas, waveforms : SeqsUpTo(OpDetWaveformPtrs, MaxGateWaveforms)]

\* util::mapDataProductPointers: the art pointer of each waveform of a data
\* product; the product may be the whole of the waveforms or a part of them
OpDetWaveMaps == { [waveform \in product |-> waveform] : product \in {OpDetWaveformPtrs, {1}} }

\* (mutant) every gate is written as a gate with no waveform
transformIntoOpticalTriggerGate_emptied(gates) ==
  [i \in DOMAIN gates |-> << >>]

\* transformIntoOpticalTriggerGate(gates): the levels of each gate, in the
\* order of the gates; an empty entry for a gate with no waveform
transformIntoOpticalTriggerGate(gates) ==
  [i \in DOMAIN gates |->
     IF gates[i].waveforms = << >> THEN << >> ELSE gates[i].levels]

\* (mutant) the pointers to the gate data count from one
makeGatePtr_fromOne(iGate) == iGate + 1

\* art::PtrMaker: the pointer to the element iGate (from 0) of the data
\* product being made
makeGatePtr(iGate) == iGate

\* the inner loop on the waveforms of a gate: gateToWaveforms with a pair
\* added for each waveform from position k on; opDetWavePtrs.at() throws
\* std::out_of_range for a waveform that is not in the map
RECURSIVE addSingles(_, _, _, _, _)
addSingles(gateToWaveforms, gatePtr, waveforms, k, opDetWavePtrs) ==
  IF k > Len(waveforms) THEN [status |-> "ok", assns |-> gateToWaveforms]
  ELSE IF waveforms[k] \notin DOMAIN opDetWavePtrs
    THEN [status |-> "throw", assns |-> << >>]
  ELSE addSingles(Append(gateToWaveforms, << gatePtr, opDetWavePtrs[waveforms[k]] >>),
                  gatePtr, waveforms, k + 1, opDetWavePtrs)

\* the loop on the gates from gate iGate (from 0) on
RECURSIVE associateFrom(_, _, _, _)
associateFrom(gates, opDetWavePtrs, iGate, gateToWaveforms) ==
  IF iGate >= Len(gates) THEN [status |-> "ok", assns |-> gateToWaveforms]
  ELSE IF gates[iGate + 1].waveforms = << >>
    THEN associateFrom(gates, opDetWavePtrs, iGate + 1, gateToWaveforms)
  ELSE LET added == addSingles(gateToWaveforms, makeGatePtr(iGate),
                               gates[iGate + 1].waveforms, 1, opDetWavePtrs)
       IN IF added.status = "throw" THEN added
          ELSE associateFrom(gates, opDetWavePtrs, iGate + 1, added.assns)

\* transformIntoOpticalTriggerGate(gates, makeGatePtr, opDetWavePtrs): the
\* gate data and their associations to the waveforms, or an exception; the
\* pointer maker is the one of the gate data product, makeGatePtr above
transformIntoOpticalTriggerGateAndAssns(gates, opDetWavePtrs) ==
  LET gateData == transformIntoOpticalTriggerGate(gates)
      associated == associateFrom(gates, opDetWavePtrs, 0, << >>)
  IN IF associated.status = "throw"
     THEN [status |-> "throw", gateData |-> << >>, gateToWaveforms |-> << >>]
     ELSE [status |-> "ok", gateData |-> gateData,
           gateToWaveforms |-> associated.assns]

\* A producer that builds gate objects, disassembles them with
\* transformIntoOpticalTriggerGate and puts the two products into the event,
\* and a consumer that reads them back with FillTriggerGates.
RoundTripInit ==
  /\ sourceGates \in SeqsUpTo(SourceGates, MaxGates)
  /\ opDetWaveMap \in OpDetWaveMaps
  /\ written = "none"
  /\ triggerGateData = << >>
  /\ triggerGateAssns = << >>
  /\ triggerGates = NoGates
  /\ fRequireKnownBoards = FALSE
  /\ fRequireBoardConfig = FALSE
  /\ fPMTconfigTag = FALSE
  /\ fBoardSetup = << >>
  /\ fBoardInfoLookup = NoLookup
  /\ fOpDetWaveformCollection = NullCollection
  /\ PMTconfig = NullPMTconfig
  /\ eventProduct = NullCollection
  /\ lastCall = Call("PMTDecoder", "ok", "none", NoFragment, << >>)
  /\ pc = "constructed"

WriteTriggerGates ==
  /\ written = "none"
  /\ LET thresholdData ==
           transformIntoOpticalTriggerGateAndAssns(sourceGates, opDetWaveMap)
     IN /\ written' = thresholdData.status
        /\ triggerGateData' = thresholdData.gateData
        /\ triggerGateAssns' = thresholdData.gateToWaveforms
  /\ UNCHANGED << triggerGates, sourceGates, opDetWaveMap, decoderVars >>

ReadTriggerGatesBack ==
  /\ written = "ok"
  /\ ReadTriggerGates

RoundTripNext == WriteTriggerGates \/ ReadTriggerGatesBack

RoundTripSpec == RoundTripInit /\ [][RoundTripNext]_vars

\* ------------------------------------------------------------------------
\* Properties
\* ------------------------------------------------------------------------
\* the database of the tool, and a database with its pointers replaced by
\* what they point to
db == fBoardInfoLookup.db

NoConfiguration ==
  [boardName |-> "", fragmentID |-> 0, bufferLength |-> 0, postTriggerFrac |-> 0]

RecordValues(setups, cfg, database) ==
  [i \in DOMAIN database |->
     [fragmentID |-> database[i].fragmentID,
      setup |-> setups[database[i].setup],
      config |-> IF database[i].config = 0 THEN NoConfiguration
                 ELSE cfg.boards[database[i].config],
      facts |-> database[i].facts]]

\* what a resolution ends with: whether it returned and, if so, the database
Resolved(setups, cfg) ==
  { [ok |-> o.status = "ok", db |-> RecordValues(setups, cfg, o.db)] :
      o \in matchBoardConfigurationAndSetup(setups, cfg) }

AfterSetupRun == lastCall.op = "setupRun"
SetupRunReturned == lastCall.op = "setupRun" /\ lastCall.status = "ok"

Permuted(seq) ==
  { [i \in DOMAIN seq |-> seq[f[i]]] :
      f \in { g \in [DOMAIN seq -> DOMAIN seq] :
                \A i, j \in DOMAIN seq : i # j => g[i] # g[j] } }

boardsNamed(cfg, name) == { j \in DOMAIN cfg.boards : cfg.boards[j].boardName = name }

\* some board setup has a fragment ID and some configuration of the same name
\* has another one
FragmentIDConflict(setups, cfg) ==
  \E i \in DOMAIN setups :
    /\ hasFragmentID(setups[i])
    /\ \E j \in boardsNamed(cfg, setups[i].name) :
         cfg.boards[j].fragmentID # setups[i].fragmentID

\* some board setup has a fragment ID and the configuration found for its
\* name has another one
FoundFragmentIDConflict(setups, cfg) ==
  \E i \in DOMAIN setups :
    /\ hasFragmentID(setups[i])
    /\ boardsNamed(cfg, setups[i].name) # {}
    /\ cfg.boards[Min(boardsNamed(cfg, setups[i].name))].fragmentID
         # setups[i].fragmentID

\* C3 (as claimed): if a setup entry has a fragment ID and a config of the
\* same name has a different one, resolution fails and the decoder holds no
\* database afterwards, neither a partial one nor one of an earlier run.
C3_ConflictLeavesNoDatabase ==
  (AfterSetupRun /\ FragmentIDConflict(fBoardSetup, PMTconfig)) =>
    (lastCall.status # "ok" /\ ~fBoardInfoLookup.has)

\* C3 (amended): if a setup entry has a fragment ID and the config found for
\* its name has a different one, setupRun fails and emplaces no database: the
\* lookup of the decoder is left exactly as it was before the call (empty on
\* the first run, the database of the earlier run after one).
C3_ConflictKeepsLookup ==
  [][ (lastCall'.op = "setupRun" /\ FoundFragmentIDConflict(fBoardSetup, PMTconfig'))
        => (lastCall'.status # "ok" /\ fBoardInfoLookup' = fBoardInfoLookup) ]_vars

\* C3 witness: a run whose setupRun threw on a fragment ID mismatch while the
\* decoder held the database of an earlier run
C3_Witness ==
  /\ AfterSetupRun
  /\ lastCall.error = "FragmentIDMismatch"
  /\ FoundFragmentIDConflict(fBoardSetup, PMTconfig)
  /\ fBoardInfoLookup.has
  /\ db # << >>

\* a board setup with no fragment ID and no configuration of its name
Unresolvable(boardSetup, cfg) ==
  ~hasFragmentID(boardSetup) /\ boardsNamed(cfg, boardSetup.name) = {}

\* C4: a setup entry with no fragment ID and no config of its name adds no
\* record and never makes resolution fail, whatever the flags and whether the
\* configs are absent or only lack the name: resolution ends as it does
\* without the entry.
C4_UnresolvableSetupIsSkipped ==
  AfterSetupRun =>
    LET Resolvable(boardSetup) == ~Unresolvable(boardSetup, PMTconfig)
    IN [ok |-> lastCall.status = "ok",
        db |-> IF lastCall.status = "ok"
               THEN RecordValues(fBoardSetup, PMTconfig, db) ELSE << >>]
         \in Resolved(SelectSeq(fBoardSetup, Resolvable), PMTconfig)

\* some board setup has no configuration of its name
MissingBoardConfig(setups, cfg) ==
  \E i \in DOMAIN setups : boardsNamed(cfg, setups[i].name) = {}

\* C5: with a configuration source in use, RequireBoardConfig alone decides
\* what a setup board with no matching configuration does to resolution:
\* fatal if the flag is set, a warning if not, whatever RequireKnownBoards.
C5_RequireBoardConfigDecides ==
  (AfterSetupRun /\ fPMTconfigTag /\ MissingBoardConfig(fBoardSetup, PMTconfig)) =>
    /\ fRequireBoardConfig => lastCall.status # "ok"
    /\ (~fRequireBoardConfig /\ ~FragmentIDConflict(fBoardSetup, PMTconfig))
         => lastCall.status = "ok"

\* the records that the board setups alone give: one for each setup with a
\* fragment ID, with no configuration and no pre-trigger time
SetupOnlyRecord(database, i) ==
  /\ database[i].config = 0
  /\ database[i].facts.preTriggerTime = 0
  /\ database[i].fragmentID = fBoardSetup[database[i].setup].fragmentID

\* C7: a run with no configuration data (null PMTconfig) although PMTconfigTag
\* is set is supported: setupRun returns, with a record for each setup that
\* has a fragment ID, none with a configuration, all with zero pre-trigger time.
C7_NullConfigurationWithTag ==
  (AfterSetupRun /\ fPMTconfigTag /\ ~PMTconfig.present) =>
    /\ lastCall.status = "ok"
    /\ \A i \in DOMAIN db : SetupOnlyRecord(db, i)
    /\ { db[i].setup : i \in DOMAIN db }
         = { k \in DOMAIN fBoardSetup : hasFragmentID(fBoardSetup[k]) }

\* the waveforms that the last process_fragment appended to the collection
Appended ==
  SubSeq(fOpDetWaveformCollection.v, Len(lastCall.before) + 1,
         Len(fOpDetWaveformCollection.v))

Processed == lastCall.op = "process_fragment"
ProcessedAndReturned == lastCall.op = "process_fragment" /\ lastCall.status = "ok"

\* the records of the database with the fragment ID of a fragment, and the
\* first of them
recordsOf(fragmentID) == { i \in DOMAIN db : db[i].fragmentID = fragmentID }
hasRecord(fragmentID) == recordsOf(fragmentID) # {}
recordOf(fragmentID) == db[Min(recordsOf(fragmentID))]

\* the trigger delay in the setup of the record of a fragment, zero without
triggerDelayOf(fragmentID) ==
  IF hasRecord(fragmentID)
  THEN fBoardSetup[recordOf(fragmentID).setup].triggerDelay ELSE 0

\* the pre-trigger duration in the facts of the record of a fragment, zero
\* without
preTriggerDurationOf(fragmentID) ==
  IF hasRecord(fragmentID) THEN recordOf(fragmentID).facts.preTriggerTime ELSE 0

\* C6: if the configs are entirely absent, every record of the resolved
\* database has zero pre-trigger duration, and every waveform emitted by
\* process_fragment starts at referenceTriggerTime - triggerDelay, with the
\* trigger delay of the setup of the fragment's record (zero with no record).
C6_NoConfiguration ==
  ~PMTconfig.present =>
    /\ SetupRunReturned =>
         \A i \in DOMAIN db : db[i].facts.preTriggerTime = 0
    /\ ProcessedAndReturned =>
         \A k \in DOMAIN Appended :
           Appended[k].TimeStamp
             = TriggerTime - triggerDelayOf(lastCall.fragment.fragmentID)

\* C6 witness: without configs, a fragment of a board set up with a 43 ns
\* trigger delay was decoded into waveforms starting at 1000 - 43
C6_Witness ==
  /\ ProcessedAndReturned
  /\ ~PMTconfig.present
  /\ triggerDelayOf(lastCall.fragment.fragmentID) = 43
  /\ Appended # << >>
  /\ Appended[1].TimeStamp = 957

\* C8: the waveforms of every decoded fragment start at referenceTriggerTime
\* - triggerDelay - preTriggerDuration, with the trigger delay of the setup of
\* the record and the pre-trigger duration of its facts; a term is zero when
\* there is no record, and the pre-trigger duration is zero when the record
\* has no configuration.
C8_StartTime ==
  ProcessedAndReturned =>
    LET id == lastCall.fragment.fragmentID
    IN /\ \A k \in DOMAIN Appended :
            Appended[k].TimeStamp
              = TriggerTime - triggerDelayOf(id) - preTriggerDurationOf(id)
       /\ ~hasRecord(id) => (triggerDelayOf(id) = 0 /\ preTriggerDurationOf(id) = 0)
       /\ (hasRecord(id) /\ recordOf(id).config = 0) => preTriggerDurationOf(id) = 0

\* C8 witness: 1000 - 43 - 2000 = -1043
C8_Witness ==
  /\ ProcessedAndReturned
  /\ triggerDelayOf(lastCall.fragment.fragmentID) = 43
  /\ preTriggerDurationOf(lastCall.fragment.fragmentID) = 2000
  /\ Appended # << >>
  /\ Appended[1].TimeStamp = -1043

\* C9: a fragment whose ID has no record, with RequireKnownBoards set, makes
\* process_fragment fail with the unknown-board error and append nothing,
\* whatever the channel map knows of the fragment.
C9_UnknownBoardIsFatal ==
  (Processed /\ fRequireKnownBoards /\ ~hasRecord(lastCall.fragment.fragmentID)) =>
    /\ lastCall.status = "throw"
    /\ lastCall.error = "NoBoardInformation"
    /\ Appended = << >>

\* C10: a fragment whose ID has no record, with RequireKnownBoards not set,
\* does not make process_fragment fail: the waveforms of the fragment, one for
\* each channel of the channel map, are appended, all starting exactly at
\* referenceTriggerTime.
C10_UnknownBoardUncorrected ==
  (Processed /\ ~fRequireKnownBoards /\ ~hasRecord(lastCall.fragment.fragmentID)) =>
    /\ lastCall.status = "ok"
    /\ Len(Appended)
         = Len(getChannelIDPairVec(lastCall.fragment.fragmentID % FragmentIDMask))
    /\ \A k \in DOMAIN Appended : Appended[k].TimeStamp = TriggerTime

\* C10 witness: waveforms of a fragment with no record, at the trigger time
C10_Witness ==
  /\ ProcessedAndReturned
  /\ ~fRequireKnownBoards
  /\ ~hasRecord(lastCall.fragment.fragmentID)
  /\ Appended # << >>
  /\ \A k \in DOMAIN Appended : Appended[k].TimeStamp = TriggerTime

\* the payload of a fragment as its header declares it, in 16-bit samples, and
\* the effective ID of a fragment
payloadSize(fragment) == 2 * (fragment.eventSize - evt_header_size_quad_bytes)
effectiveID(fragment) == fragment.fragmentID % FragmentIDMask

\* the channel map has channels for the effective ID of a fragment
inChannelMap(fragment) == getChannelIDPairVec(effectiveID(fragment)) # << >>

\* C11: if the payload size of a fragment is not an exact multiple of its
\* channel count, process_fragment fails with a fatal malformed-fragment error
\* and appends no waveform (the division is never silently truncated).
C11_MalformedFragmentIsFatal ==
  (Processed /\ payloadSize(lastCall.fragment) % lastCall.fragment.nChannels # 0) =>
    /\ lastCall.status = "throw"
    /\ lastCall.error = "MalformedFragment"
    /\ Appended = << >>

\* the slice of the payload that belongs to a digitizer channel
payloadSlice(fragment, digitizerChannel) ==
  LET samplesPerChannel == Len(fragment.data) \div fragment.nChannels
  IN SubSeq(fragment.data, digitizerChannel * samplesPerChannel + 1,
            digitizerChannel * samplesPerChannel + samplesPerChannel)

\* C12: a decoded fragment whose effective ID the channel map knows appends
\* exactly one waveform for each (digitizer channel, channel ID) pair of the
\* channel map, in that order, each with the start time of the fragment, the
\* channel ID of the pair and the samplesPerChannel samples of the payload
\* that start at digitizer channel * samplesPerChannel.
C12_OneWaveformPerChannel ==
  (ProcessedAndReturned /\ inChannelMap(lastCall.fragment)) =>
    LET fragment == lastCall.fragment
        pairs == getChannelIDPairVec(effectiveID(fragment))
        startTime == TriggerTime - triggerDelayOf(fragment.fragmentID)
                       - preTriggerDurationOf(fragment.fragmentID)
    IN /\ Len(Appended) = Len(pairs)
       /\ \A k \in DOMAIN pairs :
            Appended[k] = [TimeStamp |-> startTime,
                           ChannelNumber |-> pairs[k][2],
                           Waveform |-> payloadSlice(fragment, pairs[k][1])]

\* C12 witness: payload [1..4] on two channels mapped to 101 and 102 gave
\* the waveforms {T, 101, [1,2]} and {T, 102, [3,4]}
C12_Witness ==
  /\ ProcessedAndReturned
  /\ lastCall.fragment = MakeFragment(1, 2, 6)
  /\ Len(Appended) = 2
  /\ Appended[1].ChannelNumber = 101 /\ Appended[1].Waveform = << 1, 2 >>
  /\ Appended[2].ChannelNumber = 102 /\ Appended[2].Waveform = << 3, 4 >>
  /\ Appended[1].TimeStamp = Appended[2].TimeStamp

OutputReturned == lastCall.op = "outputDataProducts" /\ lastCall.status = "ok"

Bijections(n) ==
  { f \in [1..n -> 1..n] : \A i, j \in 1..n : i # j => f[i] # f[j] }

SortedByChannel(coll) ==
  \A i, j \in DOMAIN coll : i < j => coll[i].ChannelNumber <= coll[j].ChannelNumber

\* C13: the sequence handed off by outputDataProducts holds exactly the
\* waveforms that were in the collection (those appended since the last
\* initializeDataProducts), none lost, none duplicated, in ascending order of
\* channel ID whatever the order they were appended in.
C13_OutputIsSortedPermutation ==
  OutputReturned =>
    /\ eventProduct.has
    /\ Len(eventProduct.v) = Len(lastCall.before)
    /\ \E f \in Bijections(Len(lastCall.before)) :
         \A i \in DOMAIN eventProduct.v : eventProduct.v[i] = lastCall.before[f[i]]
    /\ SortedByChannel(eventProduct.v)

\* C13 witness: waveforms appended out of channel order were handed off
C13_Witness ==
  /\ OutputReturned
  /\ Len(lastCall.before) >= 2
  /\ ~SortedByChannel(lastCall.before)
  /\ eventProduct.v # lastCall.before

\* C14: the ordering of outputDataProducts is stable: two waveforms of the
\* same channel are handed off in the relative order they were appended in.
C14_OutputOrderIsStable ==
  OutputReturned =>
    \E f \in Bijections(Len(lastCall.before)) :
      /\ \A i \in DOMAIN eventProduct.v : eventProduct.v[i] = lastCall.before[f[i]]
      /\ \A i, j \in DOMAIN eventProduct.v :
           (i < j /\ eventProduct.v[i].ChannelNumber = eventProduct.v[j].ChannelNumber)
             => f[i] < f[j]

\* the fragments that process_fragment would decode into waveforms now, had
\* it a collection to append them to
Decodable ==
  { fragment \in Fragments :
      /\ inChannelMap(fragment)
      /\ ~unknownBoardError(findBoardInfo(db, fragment.fragmentID)) }

\* C15 (as claimed): after outputDataProducts has handed the sequence off, the
\* collection of the tool is a valid empty sequence, ready for the fragments
\* of the next event and for another outputDataProducts.
C15_CollectionEmptyAfterOutput ==
  OutputReturned =>
    /\ fOpDetWaveformCollection.has
    /\ fOpDetWaveformCollection.v = << >>
    /\ \A fragment \in Decodable :
         \A o \in decodeFragment(fragment) : o.status = "ok"

\* C15 (amended): after outputDataProducts has handed the sequence off, the
\* collection of the tool is null (moved from): it holds no waveform of the
\* event, and a process_fragment that has waveforms to append before the next
\* initializeDataProducts dereferences the null pointer; initializeDataProducts
\* is what makes the collection a valid empty sequence.
C15_CollectionNullUntilInitialized ==
  /\ OutputReturned =>
       /\ fOpDetWaveformCollection = NullCollection
       /\ \A fragment \in Decodable :
            decodeFragment(fragment) = {Decoded("crash", "NullCollection", << >>)}
  /\ lastCall.op = "initializeDataProducts" =>
       fOpDetWaveformCollection = [has |-> TRUE, v |-> << >>]

\* C15 witness: an event with waveforms was handed off, and a fragment could
\* be decoded in the state the tool is left in
C15_Witness ==
  /\ OutputReturned
  /\ eventProduct.has
  /\ eventProduct.v # << >>
  /\ fOpDetWaveformCollection = NullCollection
  /\ Decodable # {}

\* C16: a fragment whose effective (masked) ID the channel map does not know
\* appends no waveform, leaves the collection as it was and is no fatal error:
\* the event goes on, and the fragments that could be decoded before it can
\* still be decoded after it.
C16_UnmappedFragmentIsDropped ==
  (Processed /\ ~inChannelMap(lastCall.fragment)) =>
    /\ lastCall.status = "ok"
    /\ Appended = << >>
    /\ fOpDetWaveformCollection = [has |-> TRUE, v |-> lastCall.before]
    /\ pc = "inEvent"
    /\ \A fragment \in Decodable :
         \A o \in decodeFragment(fragment) :
           /\ o.status = "ok"
           /\ Len(o.waveforms) = Len(getChannelIDPairVec(effectiveID(fragment)))

\* C16 witness: a fragment with raw ID 0x1003 was dropped after waveforms of
\* another fragment of the event had been collected
C16_Witness ==
  /\ Processed
  /\ lastCall.fragment.fragmentID = 4099
  /\ lastCall.status = "ok"
  /\ lastCall.before # << >>
  /\ fOpDetWaveformCollection.v = lastCall.before
  /\ Decodable # {}

EventCalls == {"initializeDataProducts", "process_fragment", "outputDataProducts"}

\* C17: the database is built by setupRun before the first process_fragment
\* of the run and frozen afterwards: every process_fragment finds a built
\* database, only setupRun changes the database, and no initializeDataProducts,
\* process_fragment or outputDataProducts does.
C17_BuildThenFreeze ==
  [][ /\ lastCall'.op = "process_fragment" => fBoardInfoLookup.has
      /\ lastCall'.op \in EventCalls => fBoardInfoLookup' = fBoardInfoLookup
      /\ fBoardInfoLookup' # fBoardInfoLookup =>
           (lastCall'.op = "setupRun" /\ lastCall'.status = "ok"
              /\ fBoardInfoLookup'.has) ]_vars

\* C17 witness: a fragment was decoded with the records of the database
C17_Witness ==
  /\ ProcessedAndReturned
  /\ fBoardInfoLookup.has
  /\ hasRecord(lastCall.fragment.fragmentID)
  /\ Appended # << >>

\* a step that calls process_fragment again on the fragment of the last call
Reinvoked ==
  /\ ProcessedAndReturned
  /\ lastCall'.op = "process_fragment"
  /\ lastCall'.fragment = lastCall.fragment
  /\ lastCall'.before = fOpDetWaveformCollection.v

\* C18 (as claimed): process_fragment is idempotent: a second call on the
\* same fragment leaves the tool in the state the first call left it in.
C18_DecodingIsIdempotent ==
  [][ Reinvoked => fOpDetWaveformCollection' = fOpDetWaveformCollection ]_vars

\* C18 (amended): process_fragment is deterministic in its inputs but not
\* idempotent: a second call on the same fragment returns as the first did
\* and appends the same waveforms once more, changing nothing else.
C18_ReinvocationAppendsAgain ==
  [][ Reinvoked =>
        /\ lastCall'.status = "ok"
        /\ fOpDetWaveformCollection' =
             [has |-> TRUE, v |-> fOpDetWaveformCollection.v \o Appended]
        /\ UNCHANGED << config, fBoardInfoLookup, PMTconfig >> ]_vars

\* C18 witness: the waveforms of a fragment are in the collection twice
C18_Witness ==
  /\ ProcessedAndReturned
  /\ Appended # << >>
  /\ lastCall.before = Appended
  /\ fOpDetWaveformCollection.v = Appended \o Appended

\* a configuration without the boards whose name no board setup has
namedInSetup(setups, board) == \E i \in DOMAIN setups : setups[i].name = board.boardName

withoutUnmatchedBoards(setups, cfg) ==
  LET Matched(board) == namedInSetup(setups, board)
  IN [cfg EXCEPT !.boards = SelectSeq(cfg.boards, Matched)]

\* C19: setups drive inclusion: every record refers to one setup entry (and,
\* if any, to a configuration of the name of that setup), there are no more
\* records than setup entries, and a configuration whose name no setup has
\* changes nothing: resolution ends as it does without that configuration.
C19_SetupsDriveInclusion ==
  AfterSetupRun =>
    /\ SetupRunReturned =>
         /\ Len(db) <= Len(fBoardSetup)
         /\ \A i \in DOMAIN db :
              /\ db[i].setup \in DOMAIN fBoardSetup
              /\ db[i].config # 0 =>
                   PMTconfig.boards[db[i].config].boardName
                     = fBoardSetup[db[i].setup].name
    /\ [ok |-> lastCall.status = "ok",
        db |-> IF lastCall.status = "ok"
               THEN RecordValues(fBoardSetup, PMTconfig, db) ELSE << >>]
         \in Resolved(fBoardSetup, withoutUnmatchedBoards(fBoardSetup, PMTconfig))

\* the one-to-many sequential requirement of FillTriggerGates: the keys of
\* the associations are gates of the collection and never decrease (groups
\* contiguous and in gate order), each gate has an association, and the
\* waveforms of a group are distinct and in increasing order
OneToManySequential(gates, gateToWaveforms) ==
  /\ \A p \in DOMAIN gateToWaveforms : gateToWaveforms[p][1] < Len(gates)
  /\ \A p, q \in DOMAIN gateToWaveforms :
       p < q => /\ gateToWaveforms[p][1] <= gateToWaveforms[q][1]
                /\ gateToWaveforms[p][1] = gateToWaveforms[q][1]
                     => gateToWaveforms[p][2] < gateToWaveforms[q][2]
  /\ \A i \in 0..(Len(gates) - 1) :
       \E p \in DOMAIN gateToWaveforms : gateToWaveforms[p][1] = i

\* the waveforms associated to a gate, in the order of the associations
waveformsOf(gateToWaveforms, iGate) ==
  LET OfGate(pair) == pair[1] = iGate
      pairs == SelectSeq(gateToWaveforms, OfGate)
  IN [k \in DOMAIN pairs |-> pairs[k][2]]

recordsOfSetup(i) == { k \in DOMAIN db : db[k].setup = i }

\* C22: every setup entry with a configuration of its name (and no fragment
\* ID conflict) has one record, which takes its fragmentID from the
\* configuration, refers to the setup and to the configuration and has the
\* pre-trigger duration bufferLength * (1 - postTriggerFrac) * tick, also when
\* the setup declares no fragment ID.
C22_RecordFromConfiguration ==
  SetupRunReturned =>
    \A i \in DOMAIN fBoardSetup :
      boardsNamed(PMTconfig, fBoardSetup[i].name) # {} =>
        LET j == Min(boardsNamed(PMTconfig, fBoardSetup[i].name))
            board == PMTconfig.boards[j]
        IN /\ Cardinality(recordsOfSetup(i)) = 1
           /\ \A k \in recordsOfSetup(i) :
                /\ db[k].config = j
                /\ db[k].fragmentID = board.fragmentID
                /\ 100 * db[k].facts.preTriggerTime
                     = board.bufferLength * (100 - board.postTriggerFrac) * fOpticalTick

\* C22 witness: a setup with no fragment ID got fragment ID 1 and 2000 ns from
\* the configuration of its board (2000 samples, half of them post-trigger)
C22_Witness ==
  /\ SetupRunReturned
  /\ \E i \in DOMAIN fBoardSetup :
       /\ ~hasFragmentID(fBoardSetup[i])
       /\ \E k \in recordsOfSetup(i) :
            /\ db[k].config # 0
            /\ db[k].fragmentID = 1
            /\ db[k].facts.preTriggerTime = 2000

\* C23: every setup entry with a fragment ID and no configuration of its name
\* gets a record with the fragment ID of the setup, no configuration and zero
\* pre-trigger duration, and resolution does not fail for it (a warning).
C23_RecordFromSetupAlone ==
  (AfterSetupRun
     /\ ~FragmentIDConflict(fBoardSetup, PMTconfig)
     /\ \E i \in DOMAIN fBoardSetup :
          hasFragmentID(fBoardSetup[i])
            /\ boardsNamed(PMTconfig, fBoardSetup[i].name) = {}) =>
    /\ lastCall.status = "ok"
    /\ \A i \in DOMAIN fBoardSetup :
         (hasFragmentID(fBoardSetup[i])
            /\ boardsNamed(PMTconfig, fBoardSetup[i].name) = {}) =>
           /\ Cardinality(recordsOfSetup(i)) = 1
           /\ \A k \in recordsOfSetup(i) :
                /\ db[k].fragmentID = fBoardSetup[i].fragmentID
                /\ db[k].config = 0
                /\ db[k].facts.preTriggerTime = 0

\* C25: the search of a configuration by name ends with a configuration of
\* that name, with none or with an exception, never with the dereference of a
\* failed search: with a configuration source, RequireKnownBoards not set and
\* a setup name that the configuration lacks, it ends with no configuration.
C25_LookupNeverDereferencesNull ==
  AfterSetupRun =>
    /\ lastCall.error # "NullDereference"
    /\ SetupRunReturned =>
         \A k \in DOMAIN db :
           IF boardsNamed(PMTconfig, fBoardSetup[db[k].setup].name) = {}
           THEN db[k].config = 0
           ELSE db[k].config \in boardsNamed(PMTconfig, fBoardSetup[db[k].setup].name)
    /\ (fPMTconfigTag /\ ~fRequireKnownBoards
          /\ ~FragmentIDConflict(fBoardSetup, PMTconfig)) => lastCall.status = "ok"

\* C28: every record of the database has a setup, a fragment ID other than
\* NoFragmentID and, if it has a configuration, the fragment ID of that
\* configuration; the record that the lookup finds for a fragment has the
\* (unmasked) fragment ID of the fragment.
C28_RecordsAreConsistent ==
  /\ (fBoardInfoLookup.has /\ pc # "aborted") =>
       \A k \in DOMAIN db :
         /\ db[k].setup \in DOMAIN fBoardSetup
         /\ db[k].fragmentID # NoFragmentID
         /\ db[k].config # 0 =>
              /\ db[k].config \in DOMAIN PMTconfig.boards
              /\ db[k].fragmentID = PMTconfig.boards[db[k].config].fragmentID
  /\ (fBoardInfoLookup.has /\ pc # "aborted") =>
       \A id \in FragmentIDs :
         LET boardInfo == findBoardInfo(db, id)
         IN boardInfo # 0 =>
              /\ db[boardInfo].fragmentID = id
              /\ db[boardInfo].setup # 0

\* C28 witness: a fragment was decoded with the record of a setup that has no
\* fragment ID of its own
C28_Witness ==
  /\ ProcessedAndReturned
  /\ Appended # << >>
  /\ hasRecord(lastCall.fragment.fragmentID)
  /\ recordOf(lastCall.fragment.fragmentID).config # 0
  /\ ~hasFragmentID(fBoardSetup[recordOf(lastCall.fragment.fragmentID).setup])

\* the associations hold, one after the other, a pair for each gate index
\* 0, 1, ... in this order (other pairs may lie in between)
InGateOrder(gates, gateToWaveforms) ==
  \E f \in [DOMAIN gates -> DOMAIN gateToWaveforms] :
    /\ \A i, j \in DOMAIN gates : i < j => f[i] < f[j]
    /\ \A i \in DOMAIN gates : gateToWaveforms[f[i]][1] = i - 1

\* C24: FillTriggerGates fails, returning no collection, whenever some gate
\* has no association to be found from the end of the group of the previous
\* gate on: a gate with no waveform at all, or groups of associations that are
\* not in the order of the gates; it fails in no other case.
C24_UnorderedAssociationsFail ==
  triggerGates.status # "none" =>
    /\ triggerGates.status = "throw" <=> ~InGateOrder(triggerGateData, triggerGateAssns)
    /\ triggerGates.status = "throw" => triggerGates.gates = << >>
    /\ (\E i \in DOMAIN triggerGateData :
          waveformsOf(triggerGateAssns, i - 1) = << >>)
         => triggerGates.status = "throw"
    /\ (\E i \in 1..(Len(triggerGateData) - 1) :
          \A p, q \in DOMAIN triggerGateAssns :
            (triggerGateAssns[p][1] = i /\ triggerGateAssns[q][1] = i - 1) => p < q)
         => triggerGates.status = "throw"

\* C24 witness: each of two gates has an association, the one of the second
\* gate comes first, and FillTriggerGates failed
C24_Witness ==
  /\ triggerGates.status = "throw"
  /\ Len(triggerGateData) = 2
  /\ Len(triggerGateAssns) = 2
  /\ triggerGateAssns[1][1] = 1
  /\ triggerGateAssns[2][1] = 0

\* the sizes in the header and the metadata of a fragment are sound: the
\* event is no shorter than its header, the double of its payload size fits
\* 32 bits and there is a channel to divide by
soundSizes(fragment) ==
  /\ fragment.eventSize >= evt_header_size_quad_bytes
  /\ 2 * (fragment.eventSize - evt_header_size_quad_bytes) < UInt32
  /\ fragment.nChannels # 0

\* C26: process_fragment never computes the number of samples of a channel
\* from a wrapped or undefined value: 2 * (eventSize - header size) does not
\* wrap modulo 2^32 and the division is never made with a channel count of
\* zero; a fragment with such sizes is turned down with an exception and adds
\* no waveform.
C26_SampleCountIsDefined ==
  (Processed /\ ~soundSizes(lastCall.fragment)) =>
    /\ lastCall.status = "throw"
    /\ lastCall.error # "bad_alloc"
    /\ Appended = << >>

\* C27: every slice that process_fragment copies lies inside the payload of
\* the fragment: each digitizer channel of the channel map is below the
\* channel count of the fragment, so no read goes past the payload and every
\* waveform holds samples of the payload only.
C27_SlicesInsidePayload ==
  (Processed /\ lastCall.status # "throw" /\ soundSizes(lastCall.fragment)
     /\ inChannelMap(lastCall.fragment)) =>
    LET fragment == lastCall.fragment
        pairs == getChannelIDPairVec(effectiveID(fragment))
    IN /\ \A k \in DOMAIN pairs : pairs[k][1] < fragment.nChannels
       /\ lastCall.error # "ReadPastPayload"
       /\ \A k \in DOMAIN Appended :
            \A n \in DOMAIN Appended[k].Waveform :
              \E m \in DOMAIN fragment.data :
                Appended[k].Waveform[n] = fragment.data[m]

\* C21: transformIntoOpticalTriggerGate with a pointer maker returns one gate
\* data entry for each input gate, in the order of the gates, and sets the
\* associations gate by gate and, within a gate, in the order of waveforms():
\* every association of the gate at position i refers to the gate data at
\* index i, also when gates before it have no waveform; a gate with no
\* waveform gets an empty gate data entry and no association.
C21_TransformKeepsGateOrder ==
  written = "ok" =>
    /\ Len(triggerGateData) = Len(sourceGates)
    /\ \A i \in DOMAIN sourceGates :
         /\ waveformsOf(triggerGateAssns, i - 1) = sourceGates[i].waveforms
         /\ triggerGateData[i] = IF sourceGates[i].waveforms = << >>
                                 THEN << >> ELSE sourceGates[i].levels
    /\ \A p \in DOMAIN triggerGateAssns : triggerGateAssns[p][1] < Len(sourceGates)
    /\ \A p, q \in DOMAIN triggerGateAssns :
         p < q => triggerGateAssns[p][1] <= triggerGateAssns[q][1]

\* C21 witness: a gate with no waveform, then a gate with waveforms 2 and 1:
\* the gate data have an empty first entry and both associations refer to
\* index 1
C21_Witness ==
  /\ written = "ok"
  /\ Len(sourceGates) = 2
  /\ sourceGates[1] = [levels |-> << 1 >>, waveforms |-> << >>]
  /\ sourceGates[2] = [levels |-> << 1 >>, waveforms |-> << 2, 1 >>]
  /\ triggerGateData = << << >>, << 1 >> >>
  /\ triggerGateAssns = << << 1, 2 >>, << 1, 1 >> >>

ReadBack == written = "ok" /\ triggerGates.status # "none"

\* C29 (as stated): FillTriggerGates applied to the output of
\* transformIntoOpticalTriggerGate succeeds and returns the gates that were
\* written, same gate data and same waveforms in the same order, also for a
\* collection that holds a gate with no waveform.
C29_RoundTrip ==
  ReadBack =>
    /\ triggerGates.status = "ok"
    /\ triggerGates.gates = sourceGates

\* C29 (amended): the round trip returns the gates that were written if each
\* of them has at least one waveform; a collection that holds a gate with no
\* waveform is written with an empty entry and no association for that gate,
\* and FillTriggerGates fails on it.
C29_RoundTripOfGatesWithWaveforms ==
  ReadBack =>
    IF \A i \in DOMAIN sourceGates : sourceGates[i].waveforms # << >>
    THEN /\ triggerGates.status = "ok"
         /\ triggerGates.gates = sourceGates
    ELSE /\ triggerGates.status = "throw"
         /\ triggerGates.gates = << >>

\* C29 witness: two gates with waveforms and levels were written and read back
C29_Witness ==
  /\ ReadBack
  /\ triggerGates.status = "ok"
  /\ Len(sourceGates) = 2
  /\ sourceGates[1] = [levels |-> << 1 >>, waveforms |-> << 1, 2 >>]
  /\ sourceGates[2] = [levels |-> << >>, waveforms |-> << 2 >>]
  /\ triggerGates.gates = sourceGates

====
